---- MODULE Spec2Model ----
(***************************************************************************)
(* large_cohort/tasks/shakespeare.py: configuration of the federated       *)
(* Shakespeare character prediction task.                                  *)
(*                                                                         *)
(* The module's two producers, get_model_spec and get_data_spec, and the   *)
(* closures they return are modelled over an object heap (object identity  *)
(* is a heap index) and a log of the calls the harness has made, each with *)
(* the collaborator calls it caused and the way it ended.  Collaborators   *)
(* (the dataset source, the preprocessing factory, the model factory, the  *)
(* special-token accessor) are black boxes: each call either raises or     *)
(* returns a newly built object.                                           *)
(***************************************************************************)
EXTENDS Naturals, Sequences, FiniteSets

VARIABLES CHAR_VOCAB, heap, history

vars == <<CHAR_VOCAB, heap, history>>

(* ------------------------------ bounds -------------------------------- *)

\* longest base character vocabulary tried
MaxVocab == 2
\* harness calls per behaviour when collaborators may fail
MaxCalls == 2
\* harness calls per behaviour when no collaborator fails
MaxReliableCalls == 3

(* ------------------------- module-level values ------------------------ *)

SEQUENCE_LENGTH == 80

\* variant: three reserved tokens
VOCAB_SIZE_ThreeReserved == Len(CHAR_VOCAB) + 3

VOCAB_SIZE == Len(CHAR_VOCAB) + 4

\* the reference to None
None == 0

\* the reference to the module-level function _metrics_builder
METRICS_BUILDER_REF == 1

Chars == {"a"}

RECURSIVE SeqsUpTo(_, _)
SeqsUpTo(S, n) ==
  IF n = 0 THEN {<<>>}
  ELSE LET shorter == SeqsUpTo(S, n - 1)
       IN shorter \cup {Append(s, c) : s \in {t \in shorter : Len(t) = n - 1}, c \in S}

Vocabularies == SeqsUpTo(Chars, MaxVocab)

(* --------------------- interpreter: frames and calls ------------------ *)

NoExc == [type |-> "none", origin |-> <<>>]

\* a function activation: the heap, the collaborator calls made so far,
\* the pending exception, the value of the last expression, the locals
Frame(h) == [heap |-> h, trace |-> <<>>, exc |-> NoExc, value |-> None, locals |-> <<>>]

Raised(fr) == fr.exc # NoExc

Bind(f, k, v) == [n \in (DOMAIN f) \cup {k} |-> IF n = k THEN v ELSE f[n]]

Assign(fr, name, v) == [fr EXCEPT !.locals = Bind(@, name, v)]

\* variant: one cached object per kind, overwritten by each construction
ConstructCached(fr, obj) ==
  LET same == {r \in DOMAIN fr.heap :
                 /\ fr.heap[r].type = obj.type
                 /\ (IF obj.type = "partial" THEN fr.heap[r].func = obj.func ELSE TRUE)}
  IN IF same = {}
     THEN [fr EXCEPT !.heap = Append(@, obj), !.value = Len(fr.heap) + 1]
     ELSE LET r == CHOOSE x \in same : TRUE
          IN [fr EXCEPT !.heap = [@ EXCEPT ![r] = obj], !.value = r]

\* constructing an object yields a new identity
Construct(fr, obj) ==
  [fr EXCEPT !.heap = Append(@, obj), !.value = Len(fr.heap) + 1]

\* a collaborator call: it raises, or returns the last of the objects it built
Call(fr, fn, kwargs, objs, fails) ==
  IF fails
  THEN LET e == [type |-> "Error", origin |-> <<fn>>]
       IN [fr EXCEPT !.trace = Append(@, [fn |-> fn, kwargs |-> kwargs, raised |-> TRUE,
                                          exc |-> e, value |-> None]),
                     !.exc = e]
  ELSE LET id == Len(fr.heap) + Len(objs)
       IN [fr EXCEPT !.heap = @ \o objs,
                     !.trace = Append(@, [fn |-> fn, kwargs |-> kwargs, raised |-> FALSE,
                                          exc |-> NoExc, value |-> id]),
                     !.value = id]

\* obj.name on a caller-supplied record
GetAttr(fr, objname, obj, name) ==
  IF name \in DOMAIN obj
  THEN [fr EXCEPT !.value = obj[name]]
  ELSE [fr EXCEPT !.exc = [type |-> "AttributeError", origin |-> <<objname, name>>]]

\* binding of omitted parameters to their defaults
BindDefaults(args, defaults) ==
  [n \in (DOMAIN args) \cup (DOMAIN defaults) |->
     IF n \in DOMAIN args THEN args[n] ELSE defaults[n]]

\* the way a call ends: the value returned, or the exception left pending
Outcome(fr) ==
  IF Raised(fr) THEN [raised |-> TRUE, exc |-> fr.exc, value |-> None]
  ELSE [raised |-> FALSE, exc |-> NoExc, value |-> fr.value]

\* does the next collaborator call of this activation fail
FailsNext(fr, failAt) == Len(fr.trace) + 1 = failAt

(* --------------------------- collaborators ---------------------------- *)

Seeds == {0, 1}

\* what get_special_tokens() may return: (pad, oov, bos, eos)
SpecialTokenTuples == {<<0, 1, 2, 3>>, <<3, 2, 1, 0>>}

WellFormedClientSpecs ==
  {[num_epochs |-> 1, batch_size |-> 4], [num_epochs |-> 2, batch_size |-> 8]}

\* client specs without a batch_size or without a num_epochs attribute
MalformedClientSpecs == {[num_epochs |-> 2], [batch_size |-> 4]}

ClientSpecs == WellFormedClientSpecs \cup MalformedClientSpecs

\* the object a collaborator function builds and returns
ResultOf(fn, kwargs) ==
  CASE fn = "create_recurrent_model" -> [type |-> "Model", kwargs |-> kwargs]
    [] fn = "SparseCategoricalCrossentropy" -> [type |-> "Loss", kwargs |-> kwargs]
    [] fn = "create_preprocess_fn" -> [type |-> "preprocess_fn", kwargs |-> kwargs]
    [] fn = "get_synthetic" -> [type |-> "ClientData", kwargs |-> kwargs]
    [] OTHER -> [type |-> fn, kwargs |-> kwargs]

(* --------------------------- _metrics_builder ------------------------- *)

\* variant: _, _, _, pad_token = shakespeare_dataset.get_special_tokens()
GetPadTokenLast(fr, tokens, failAt) ==
  LET c == Call(fr, "get_special_tokens", <<>>,
                <<[type |-> "tuple", items |-> tokens]>>, FailsNext(fr, failAt))
  IN IF Raised(c) THEN c ELSE Assign(c, "pad_token", c.heap[c.value].items[4])

\* pad_token, _, _, _ = shakespeare_dataset.get_special_tokens()
GetPadToken(fr, tokens, failAt) ==
  LET c == Call(fr, "get_special_tokens", <<>>,
                <<[type |-> "tuple", items |-> tokens]>>, FailsNext(fr, failAt))
  IN IF Raised(c) THEN c ELSE Assign(c, "pad_token", c.heap[c.value].items[1])

\* one element of the returned list: a metric constructor call
Metric(fr, name, kwargs, failAt) ==
  IF Raised(fr) THEN fr
  ELSE LET c == Call(fr, name, kwargs, <<ResultOf(name, kwargs)>>, FailsNext(fr, failAt))
       IN IF Raised(c) THEN c
          ELSE Assign(c, "items", (IF "items" \in DOMAIN fr.locals
                                   THEN fr.locals.items ELSE <<>>) \o <<c.value>>)

_metrics_builder(fr0, tokens, failAt) ==
  LET t == GetPadToken(fr0, tokens, failAt)
  IN IF Raised(t) THEN t
     ELSE LET masked == [masked_tokens |-> <<t.locals.pad_token>>]
              m1 == Metric(t, "NumBatchesCounter", <<>>, failAt)
              m2 == Metric(m1, "NumExamplesCounter", <<>>, failAt)
              m3 == Metric(m2, "NumTokensCounter", masked, failAt)
              m4 == Metric(m3, "MaskedCategoricalAccuracy", masked, failAt)
          IN IF Raised(m4) THEN m4
             ELSE Construct(m4, [type |-> "list", items |-> m4.locals.items])

(* ---------------------------- get_model_spec -------------------------- *)

\* variant: the seed argument is not bound into the closure
get_model_spec_SeedDropped(fr0, args) ==
  LET p1 == Construct(fr0, [type |-> "partial",
                            func |-> "create_recurrent_model",
                            keywords |-> [vocab_size |-> VOCAB_SIZE,
                                          sequence_length |-> SEQUENCE_LENGTH,
                                          seed |-> 0]])
      p2 == Construct(p1, [type |-> "partial",
                           func |-> "SparseCategoricalCrossentropy",
                           keywords |-> [from_logits |-> TRUE]])
  IN Construct(p2, [type |-> "ModelSpec",
                    keras_model_builder |-> p1.value,
                    loss_builder |-> p2.value,
                    metrics_builder |-> METRICS_BUILDER_REF])

\* variant: the loss is built when the spec is, and the built loss is kept
get_model_spec_EagerLoss(fr0, args) ==
  LET a == BindDefaults(args, [seed |-> 0])
      p1 == Construct(fr0, [type |-> "partial",
                            func |-> "create_recurrent_model",
                            keywords |-> [vocab_size |-> VOCAB_SIZE,
                                          sequence_length |-> SEQUENCE_LENGTH,
                                          seed |-> a.seed]])
      p2 == Construct(p1, [type |-> "partial",
                           func |-> "SparseCategoricalCrossentropy",
                           keywords |-> [from_logits |-> TRUE]])
      l == Call(p2, "SparseCategoricalCrossentropy", [from_logits |-> TRUE],
                <<ResultOf("SparseCategoricalCrossentropy", [from_logits |-> TRUE])>>,
                FALSE)
  IN Construct(l, [type |-> "ModelSpec",
                   keras_model_builder |-> p1.value,
                   loss_builder |-> p2.value,
                   metrics_builder |-> METRICS_BUILDER_REF])

get_model_spec(fr0, args) ==
  LET a == BindDefaults(args, [seed |-> 0])
      p1 == Construct(fr0, [type |-> "partial",
                            func |-> "create_recurrent_model",
                            keywords |-> [vocab_size |-> VOCAB_SIZE,
                                          sequence_length |-> SEQUENCE_LENGTH,
                                          seed |-> a.seed]])
      p2 == Construct(p1, [type |-> "partial",
                           func |-> "SparseCategoricalCrossentropy",
                           keywords |-> [from_logits |-> TRUE]])
  IN Construct(p2, [type |-> "ModelSpec",
                    keras_model_builder |-> p1.value,
                    loss_builder |-> p2.value,
                    metrics_builder |-> METRICS_BUILDER_REF])

\* functools.partial.__call__: the wrapped function with the bound keywords
CallPartial(fr, p, failAt) ==
  LET o == fr.heap[p]
  IN Call(fr, o.func, o.keywords, <<ResultOf(o.func, o.keywords)>>, FailsNext(fr, failAt))

(* ----------------------------- get_data_spec -------------------------- *)

\* variant: one get_synthetic() call per field
LoadDataPerField(fr, use_synthetic_data, failAt) ==
  IF use_synthetic_data
  THEN LET c1 == Call(fr, "get_synthetic", <<>>, <<ResultOf("get_synthetic", <<>>)>>,
                      FailsNext(fr, failAt))
           c2 == IF Raised(c1) THEN c1
                 ELSE Call(c1, "get_synthetic", <<>>, <<ResultOf("get_synthetic", <<>>)>>,
                           FALSE)
       IN IF Raised(c2) THEN c2
          ELSE Assign(Assign(Assign(c2, "train_data", c1.value),
                             "validation_data", c2.value),
                      "test_data", c2.value)
  ELSE LET n == Len(fr.heap)
           c == Call(fr, "load_data", <<>>,
                     <<[type |-> "ClientData", kwargs |-> [split |-> "train"]],
                       [type |-> "ClientData", kwargs |-> [split |-> "test"]],
                       [type |-> "tuple", items |-> <<n + 1, n + 2>>]>>,
                     FailsNext(fr, failAt))
       IN IF Raised(c) THEN c
          ELSE Assign(Assign(Assign(c, "train_data", c.heap[c.value].items[1]),
                             "test_data", c.heap[c.value].items[2]),
                      "validation_data", None)

\* variant: the test split doubles as validation data
LoadDataTestAsValidation(fr, use_synthetic_data, failAt) ==
  IF use_synthetic_data
  THEN LET c == Call(fr, "get_synthetic", <<>>, <<ResultOf("get_synthetic", <<>>)>>,
                     FailsNext(fr, failAt))
       IN IF Raised(c) THEN c
          ELSE Assign(Assign(Assign(c, "train_data", c.value),
                             "validation_data", c.value),
                      "test_data", c.value)
  ELSE LET n == Len(fr.heap)
           c == Call(fr, "load_data", <<>>,
                     <<[type |-> "ClientData", kwargs |-> [split |-> "train"]],
                       [type |-> "ClientData", kwargs |-> [split |-> "test"]],
                       [type |-> "tuple", items |-> <<n + 1, n + 2>>]>>,
                     FailsNext(fr, failAt))
       IN IF Raised(c) THEN c
          ELSE Assign(Assign(Assign(c, "train_data", c.heap[c.value].items[1]),
                             "test_data", c.heap[c.value].items[2]),
                      "validation_data", c.heap[c.value].items[2])

\* lines 75-82: the dataset handles
LoadData(fr, use_synthetic_data, failAt) ==
  IF use_synthetic_data
  THEN LET c == Call(fr, "get_synthetic", <<>>, <<ResultOf("get_synthetic", <<>>)>>,
                     FailsNext(fr, failAt))
       IN IF Raised(c) THEN c
          ELSE Assign(Assign(Assign(c, "train_data", c.value),
                             "validation_data", c.value),
                      "test_data", c.value)
  ELSE LET n == Len(fr.heap)
           c == Call(fr, "load_data", <<>>,
                     <<[type |-> "ClientData", kwargs |-> [split |-> "train"]],
                       [type |-> "ClientData", kwargs |-> [split |-> "test"]],
                       [type |-> "tuple", items |-> <<n + 1, n + 2>>]>>,
                     FailsNext(fr, failAt))
       IN IF Raised(c) THEN c
          ELSE Assign(Assign(Assign(c, "train_data", c.heap[c.value].items[1]),
                             "test_data", c.heap[c.value].items[2]),
                      "validation_data", None)

\* variant: a failure of the factory is caught and the closure left None
TrainPreprocessFnCaught(fr, train_client_spec, failAt) ==
  IF Raised(fr) THEN fr
  ELSE LET e == GetAttr(fr, "train_client_spec", train_client_spec, "num_epochs")
           b == IF Raised(e) THEN e
                ELSE GetAttr(e, "train_client_spec", train_client_spec, "batch_size")
       IN IF Raised(b) THEN b
          ELSE LET kw == [num_epochs |-> e.value, batch_size |-> b.value,
                          sequence_length |-> SEQUENCE_LENGTH]
                   c == Call(b, "create_preprocess_fn", kw,
                             <<ResultOf("create_preprocess_fn", kw)>>, FailsNext(b, failAt))
               IN IF Raised(c)
                  THEN Assign([c EXCEPT !.exc = NoExc], "train_preprocess_fn", None)
                  ELSE Assign(c, "train_preprocess_fn", c.value)

\* lines 84-87: the train preprocessing closure
TrainPreprocessFn(fr, train_client_spec, failAt) ==
  IF Raised(fr) THEN fr
  ELSE LET e == GetAttr(fr, "train_client_spec", train_client_spec, "num_epochs")
           b == IF Raised(e) THEN e
                ELSE GetAttr(e, "train_client_spec", train_client_spec, "batch_size")
       IN IF Raised(b) THEN b
          ELSE LET kw == [num_epochs |-> e.value, batch_size |-> b.value,
                          sequence_length |-> SEQUENCE_LENGTH]
                   c == Call(b, "create_preprocess_fn", kw,
                             <<ResultOf("create_preprocess_fn", kw)>>, FailsNext(b, failAt))
               IN IF Raised(c) THEN c ELSE Assign(c, "train_preprocess_fn", c.value)

\* variant: the eval closure built like the train closure
EvalPreprocessFnDefaultShuffle(fr, eval_client_spec, failAt) ==
  IF Raised(fr) THEN fr
  ELSE LET e == GetAttr(fr, "eval_client_spec", eval_client_spec, "num_epochs")
           b == IF Raised(e) THEN e
                ELSE GetAttr(e, "eval_client_spec", eval_client_spec, "batch_size")
       IN IF Raised(b) THEN b
          ELSE LET kw == [num_epochs |-> e.value, batch_size |-> b.value,
                          sequence_length |-> SEQUENCE_LENGTH]
                   c == Call(b, "create_preprocess_fn", kw,
                             <<ResultOf("create_preprocess_fn", kw)>>, FailsNext(b, failAt))
               IN IF Raised(c) THEN c ELSE Assign(c, "eval_preprocess_fn", c.value)

\* lines 89-93: the eval preprocessing closure
EvalPreprocessFn(fr, eval_client_spec, failAt) ==
  IF Raised(fr) THEN fr
  ELSE LET e == GetAttr(fr, "eval_client_spec", eval_client_spec, "num_epochs")
           b == IF Raised(e) THEN e
                ELSE GetAttr(e, "eval_client_spec", eval_client_spec, "batch_size")
       IN IF Raised(b) THEN b
          ELSE LET kw == [num_epochs |-> e.value, batch_size |-> b.value,
                          shuffle_buffer_size |-> 1,
                          sequence_length |-> SEQUENCE_LENGTH]
                   c == Call(b, "create_preprocess_fn", kw,
                             <<ResultOf("create_preprocess_fn", kw)>>, FailsNext(b, failAt))
               IN IF Raised(c) THEN c ELSE Assign(c, "eval_preprocess_fn", c.value)

\* lines 95-100: the returned record
MakeDataSpec(fr) ==
  IF Raised(fr) THEN fr
  ELSE Construct(fr, [type |-> "DataSpec",
                      train_data |-> fr.locals.train_data,
                      validation_data |-> fr.locals.validation_data,
                      test_data |-> fr.locals.test_data,
                      train_preprocess_fn |-> fr.locals.train_preprocess_fn,
                      eval_preprocess_fn |-> fr.locals.eval_preprocess_fn])

\* variant: the eval closure takes its epochs and batch size from the train spec
get_data_spec_TrainSpecTwice(fr0, args, failAt) ==
  LET a == BindDefaults(args, [use_synthetic_data |-> FALSE])
  IN MakeDataSpec(
       EvalPreprocessFn(
         TrainPreprocessFn(
           LoadData(fr0, a.use_synthetic_data, failAt),
           a.train_client_spec, failAt),
         a.train_client_spec, failAt))

get_data_spec(fr0, args, failAt) ==
  LET a == BindDefaults(args, [use_synthetic_data |-> FALSE])
  IN MakeDataSpec(
       EvalPreprocessFn(
         TrainPreprocessFn(
           LoadData(fr0, a.use_synthetic_data, failAt),
           a.train_client_spec, failAt),
         a.eval_client_spec, failAt))

(* ------------------------------ state --------------------------------- *)

Init ==
  /\ CHAR_VOCAB \in Vocabularies
  /\ heap = <<[type |-> "function", name |-> "_metrics_builder"]>>
  /\ history = <<>>

\* the harness's log entry for one call
Entry(fn, args, fr) ==
  [fn |-> fn, args |-> args, trace |-> fr.trace, outcome |-> Outcome(fr)]

Finish(fn, args, fr) ==
  /\ heap' = fr.heap
  /\ history' = Append(history, Entry(fn, args, fr))
  /\ UNCHANGED CHAR_VOCAB

\* the ModelSpecs and DataSpecs the harness has been handed
Returned(fn) ==
  {i \in DOMAIN history : history[i].fn = fn /\ ~history[i].outcome.raised}

ModelSpecArgs == {<<>>} \cup [seed : Seeds]

DataSpecArgs(specs) ==
  [train_client_spec : specs, eval_client_spec : specs]
  \cup [train_client_spec : specs, eval_client_spec : specs,
        use_synthetic_data : BOOLEAN]

GetModelSpec(args) ==
  Finish("get_model_spec", args, get_model_spec(Frame(heap), args))

GetDataSpec(args, failAt) ==
  Finish("get_data_spec", args, get_data_spec(Frame(heap), args, failAt))

\* model_spec.keras_model_builder()
KerasModelBuilder(i, failAt) ==
  LET spec == history[i].outcome.value
  IN Finish("keras_model_builder", [spec |-> spec],
            CallPartial(Frame(heap), heap[spec].keras_model_builder, failAt))

\* model_spec.loss_builder()
LossBuilder(i, failAt) ==
  LET spec == history[i].outcome.value
  IN Finish("loss_builder", [spec |-> spec],
            CallPartial(Frame(heap), heap[spec].loss_builder, failAt))

\* model_spec.metrics_builder()
MetricsBuilder(i, tokens, failAt) ==
  LET spec == history[i].outcome.value
  IN /\ heap[heap[spec].metrics_builder].name = "_metrics_builder"
     /\ Finish("metrics_builder", [spec |-> spec],
               _metrics_builder(Frame(heap), tokens, failAt))

\* an exception that reaches the harness ends the run
Running == \A i \in DOMAIN history : ~history[i].outcome.raised

\* the harness may make another call
Open(limit) == Running /\ Len(history) < limit

\* collaborators may fail, client specs may be malformed
Next ==
  \/ \E args \in ModelSpecArgs : Open(MaxCalls) /\ GetModelSpec(args)
  \/ \E args \in DataSpecArgs(ClientSpecs), failAt \in 0..3 :
        Open(MaxCalls) /\ GetDataSpec(args, failAt)
  \/ \E i \in Returned("get_model_spec"), failAt \in 0..1 :
        Open(MaxCalls) /\ KerasModelBuilder(i, failAt)
  \/ \E i \in Returned("get_model_spec"), failAt \in 0..1 :
        Open(MaxCalls) /\ LossBuilder(i, failAt)
  \/ \E i \in Returned("get_model_spec"), tokens \in SpecialTokenTuples, failAt \in 0..5 :
        Open(MaxCalls) /\ MetricsBuilder(i, tokens, failAt)

Spec == Init /\ [][Next]_vars

\* no collaborator fails, client specs are well formed
NextReliable ==
  \/ \E args \in ModelSpecArgs : Open(MaxReliableCalls) /\ GetModelSpec(args)
  \/ \E args \in DataSpecArgs(WellFormedClientSpecs) :
        Open(MaxReliableCalls) /\ GetDataSpec(args, 0)
  \/ \E i \in Returned("get_model_spec") :
        Open(MaxReliableCalls) /\ KerasModelBuilder(i, 0)
  \/ \E i \in Returned("get_model_spec") :
        Open(MaxReliableCalls) /\ LossBuilder(i, 0)
  \/ \E i \in Returned("get_model_spec"), tokens \in SpecialTokenTuples :
        Open(MaxReliableCalls) /\ MetricsBuilder(i, tokens, 0)

SpecReliable == Init /\ [][NextReliable]_vars

(* ------------------------- reading the call log ----------------------- *)

Entries(fn) == {i \in DOMAIN history : history[i].fn = fn}

\* the positions of the calls of collaborator fn made during harness call i
CallsOf(i, fn) == {k \in DOMAIN history[i].trace : history[i].trace[k].fn = fn}

\* the seed a get_model_spec call was given
GivenSeed(i) ==
  IF "seed" \in DOMAIN history[i].args THEN history[i].args.seed ELSE 0

\* the data mode a get_data_spec call was given
Synthetic(i) ==
  "use_synthetic_data" \in DOMAIN history[i].args /\ history[i].args.use_synthetic_data

\* the object a call returned
Result(i) == heap[history[i].outcome.value]

(* ------------------------------- C1 ----------------------------------- *)

\* C1: a DataSpec returned by get_data_spec(use_synthetic_data=True) has the
\* same handle in train_data, validation_data and test_data, that handle is
\* the value of the only get_synthetic() call of that get_data_spec call, and
\* the call made no load_data() call.
C1_SyntheticShared ==
  \A i \in Returned("get_data_spec") :
    Synthetic(i) =>
      /\ Cardinality(CallsOf(i, "get_synthetic")) = 1
      /\ CallsOf(i, "load_data") = {}
      /\ \A k \in CallsOf(i, "get_synthetic") :
           /\ Result(i).train_data = history[i].trace[k].value
           /\ Result(i).validation_data = history[i].trace[k].value
           /\ Result(i).test_data = history[i].trace[k].value
           /\ heap[history[i].trace[k].value].type = "ClientData"

C1_Witness ==
  \E i \in Returned("get_data_spec") :
    /\ Synthetic(i)
    /\ history[i].args.train_client_spec # history[i].args.eval_client_spec

(* ------------------------------- C2 ----------------------------------- *)

\* C2: a DataSpec returned by get_data_spec with use_synthetic_data False or
\* omitted has validation_data None, train_data the first and test_data the
\* second element of the pair returned by the only load_data() call of that
\* get_data_spec call, and the call made no get_synthetic() call.
C2_RealSplit ==
  \A i \in Returned("get_data_spec") :
    ~Synthetic(i) =>
      /\ Cardinality(CallsOf(i, "load_data")) = 1
      /\ CallsOf(i, "get_synthetic") = {}
      /\ Result(i).validation_data = None
      /\ \A k \in CallsOf(i, "load_data") :
           LET pair == heap[history[i].trace[k].value].items
           IN /\ Result(i).train_data = pair[1]
              /\ Result(i).test_data = pair[2]
              /\ pair[1] # pair[2]
              /\ pair[1] # None

C2_Witness ==
  /\ \E i \in Returned("get_data_spec") : "use_synthetic_data" \notin DOMAIN history[i].args
  /\ \E i \in Returned("get_data_spec") :
       /\ "use_synthetic_data" \in DOMAIN history[i].args
       /\ ~history[i].args.use_synthetic_data

(* ------------------------------- C3 ----------------------------------- *)

\* C3: the eval_preprocess_fn of every returned DataSpec is the value of a
\* create_preprocess_fn call of that get_data_spec call whose
\* shuffle_buffer_size argument is 1, whatever the client specs and the mode.
C3_EvalShuffleOne ==
  \A i \in Returned("get_data_spec") :
    \E k \in CallsOf(i, "create_preprocess_fn") :
      LET ev == history[i].trace[k]
      IN /\ Result(i).eval_preprocess_fn = ev.value
         /\ "shuffle_buffer_size" \in DOMAIN ev.kwargs
         /\ ev.kwargs.shuffle_buffer_size = 1

C3_Witness ==
  /\ \E i \in Returned("get_data_spec") :
       Synthetic(i) /\ history[i].args.eval_client_spec.batch_size = 8
  /\ \E i \in Returned("get_data_spec") :
       ~Synthetic(i) /\ history[i].args.eval_client_spec.num_epochs = 1

(* ------------------------------- C4 ----------------------------------- *)

MetricNames ==
  <<"NumBatchesCounter", "NumExamplesCounter", "NumTokensCounter",
    "MaskedCategoricalAccuracy">>

\* C4: every metrics closure invocation that returns yields a list of
\* exactly four metrics, NumBatchesCounter, NumExamplesCounter,
\* NumTokensCounter, MaskedCategoricalAccuracy in this order, the last two
\* built with masked_tokens = [the first of the special tokens returned].
C4_FourMetrics ==
  \A i \in Returned("metrics_builder") :
    LET items == Result(i).items
        pad == heap[history[i].trace[1].value].items[1]
    IN /\ Result(i).type = "list"
       /\ Len(items) = 4
       /\ \A n \in 1..4 : heap[items[n]].type = MetricNames[n]
       /\ heap[items[1]].kwargs = <<>>
       /\ heap[items[2]].kwargs = <<>>
       /\ heap[items[3]].kwargs = [masked_tokens |-> <<pad>>]
       /\ heap[items[4]].kwargs = [masked_tokens |-> <<pad>>]

C4_Witness ==
  \E i \in Returned("metrics_builder") :
    /\ heap[history[i].trace[1].value].items = <<3, 2, 1, 0>>
    /\ GivenSeed(CHOOSE j \in Returned("get_model_spec") :
                   history[j].outcome.value = history[i].args.spec) = 1

(* ------------------------------- C5 ----------------------------------- *)

\* C5: VOCAB_SIZE is the length of CHAR_VOCAB plus 4, also for an empty
\* CHAR_VOCAB, and every model-construction closure built by get_model_spec
\* calls create_recurrent_model with that vocab_size and sequence_length 80.
C5_VocabSize ==
  /\ VOCAB_SIZE = Len(CHAR_VOCAB) + 4
  /\ \A i \in Entries("keras_model_builder") :
       /\ history[i].trace # <<>>
       /\ history[i].trace[1].fn = "create_recurrent_model"
       /\ history[i].trace[1].kwargs.vocab_size = Len(CHAR_VOCAB) + 4
       /\ history[i].trace[1].kwargs.sequence_length = 80

C5_Witness ==
  /\ CHAR_VOCAB = <<>>
  /\ Returned("keras_model_builder") # {}

(* ------------------------------- C6 ----------------------------------- *)

ModelKeywords(i) == heap[Result(i).keras_model_builder].keywords

\* C6: the model-construction closure of every ModelSpec binds the seed its
\* get_model_spec call was given (0 when omitted); the closures of any two
\* ModelSpecs wrap the same function with the same vocab_size and
\* sequence_length, and have equal keywords exactly when the seeds are equal.
C6_SeedOnly ==
  \A i, j \in Returned("get_model_spec") :
    /\ ModelKeywords(i).seed = GivenSeed(i)
    /\ DOMAIN ModelKeywords(i) = {"vocab_size", "sequence_length", "seed"}
    /\ heap[Result(i).keras_model_builder].func = heap[Result(j).keras_model_builder].func
    /\ ModelKeywords(i).vocab_size = ModelKeywords(j).vocab_size
    /\ ModelKeywords(i).sequence_length = ModelKeywords(j).sequence_length
    /\ (ModelKeywords(i) = ModelKeywords(j)) <=> (GivenSeed(i) = GivenSeed(j))

C6_Witness ==
  \E i, j \in Returned("get_model_spec") :
    /\ history[i].args = [seed |-> 0]
    /\ history[j].args = [seed |-> 1]

(* ------------------------------- C7 ----------------------------------- *)

MissingAttrs(cs) == {"num_epochs", "batch_size"} \ DOMAIN cs

\* the attribute of a malformed client spec that is read first
FirstMissing(cs) == IF "num_epochs" \in DOMAIN cs THEN "batch_size" ELSE "num_epochs"

\* C7: a collaborator call that raises is the last collaborator call of the
\* harness call it was made in, and that harness call ends with the very
\* exception raised and returns nothing; a get_data_spec call given a client
\* spec without num_epochs or batch_size ends with the AttributeError of the
\* first such read before the factory is called for that spec; no call ends with an
\* exception otherwise, and no DataSpec exists that was not returned.
C7_FailuresPropagate ==
  /\ \A i \in DOMAIN history :
       LET e == history[i]
       IN /\ \A k \in DOMAIN e.trace :
               e.trace[k].raised =>
                 /\ k = Len(e.trace)
                 /\ e.outcome.raised
                 /\ e.outcome.exc = e.trace[k].exc
                 /\ e.outcome.exc.origin = <<e.trace[k].fn>>
                 /\ e.outcome.value = None
          /\ e.outcome.raised =>
               \/ e.trace # <<>> /\ e.trace[Len(e.trace)].raised
               \/ e.fn = "get_data_spec" /\ e.outcome.exc.type = "AttributeError"
  /\ \A i \in Entries("get_data_spec") :
       LET e == history[i]
           loaded == e.trace # <<>> /\ ~e.trace[1].raised
           made == CallsOf(i, "create_preprocess_fn")
       IN /\ (loaded /\ MissingAttrs(e.args.train_client_spec) # {}) =>
               /\ e.outcome.raised
               /\ e.outcome.exc.type = "AttributeError"
               /\ e.outcome.exc.origin =
                    <<"train_client_spec", FirstMissing(e.args.train_client_spec)>>
               /\ made = {}
          /\ (/\ loaded
              /\ MissingAttrs(e.args.train_client_spec) = {}
              /\ MissingAttrs(e.args.eval_client_spec) # {}
              /\ \A k \in DOMAIN e.trace : ~e.trace[k].raised) =>
               /\ e.outcome.raised
               /\ e.outcome.exc.type = "AttributeError"
               /\ e.outcome.exc.origin =
                    <<"eval_client_spec", FirstMissing(e.args.eval_client_spec)>>
               /\ Cardinality(made) = 1
          /\ e.outcome.exc.type = "AttributeError" =>
               MissingAttrs(e.args.train_client_spec)
                 \cup MissingAttrs(e.args.eval_client_spec) # {}
  /\ Cardinality({r \in DOMAIN heap : heap[r].type = "DataSpec"})
       = Cardinality(Returned("get_data_spec"))

C7_Witness ==
  \E i \in Entries("get_data_spec") :
    /\ Len(history[i].trace) = 2
    /\ history[i].trace[2].fn = "create_preprocess_fn"
    /\ history[i].trace[2].raised
    /\ history[i].outcome.raised

(* ------------------------------- C8 ----------------------------------- *)

\* C8: a get_data_spec call that returns was given client specs that have
\* num_epochs and batch_size, and made exactly two create_preprocess_fn calls: the one whose value is train_preprocess_fn was given exactly
\* num_epochs and batch_size of train_client_spec and sequence_length 80 (no
\* shuffle_buffer_size), the one whose value is eval_preprocess_fn exactly
\* num_epochs and batch_size of eval_client_spec, shuffle_buffer_size 1 and
\* sequence_length 80.
C8_ClosuresFromOwnSpec ==
  \A i \in Returned("get_data_spec") :
    LET e == history[i]
        made == CallsOf(i, "create_preprocess_fn")
    IN /\ MissingAttrs(e.args.train_client_spec) = {}
       /\ MissingAttrs(e.args.eval_client_spec) = {}
       /\ Cardinality(made) = 2
       /\ \E k, l \in made :
            /\ k < l
            /\ Result(i).train_preprocess_fn = e.trace[k].value
            /\ e.trace[k].kwargs =
                 [num_epochs |-> e.args.train_client_spec.num_epochs,
                  batch_size |-> e.args.train_client_spec.batch_size,
                  sequence_length |-> 80]
            /\ Result(i).eval_preprocess_fn = e.trace[l].value
            /\ e.trace[l].kwargs =
                 [num_epochs |-> e.args.eval_client_spec.num_epochs,
                  batch_size |-> e.args.eval_client_spec.batch_size,
                  shuffle_buffer_size |-> 1,
                  sequence_length |-> 80]
            /\ e.trace[k].kwargs # e.trace[l].kwargs

C8_Witness ==
  /\ \E i \in Returned("get_data_spec") :
       /\ history[i].args.train_client_spec.num_epochs = 1
       /\ history[i].args.eval_client_spec.num_epochs = 2
  /\ \E i \in Returned("get_data_spec") :
       history[i].args.train_client_spec = history[i].args.eval_client_spec

(* ------------------------------- C9 ----------------------------------- *)

\* C9: a get_model_spec call makes no collaborator call and returns a
\* ModelSpec; invoking its model closure makes exactly one call, of
\* create_recurrent_model; invoking its loss closure exactly one, of
\* SparseCategoricalCrossentropy with from_logits=True; invoking its metrics
\* closure exactly one get_special_tokens call, the first call it makes.  A
\* get_data_spec call only loads data and calls the preprocessing factory,
\* the load first.
C9_Deferred ==
  /\ \A i \in Entries("get_model_spec") :
       /\ history[i].trace = <<>>
       /\ ~history[i].outcome.raised
       /\ Result(i).type = "ModelSpec"
  /\ \A i \in Entries("keras_model_builder") :
       /\ Len(history[i].trace) = 1
       /\ history[i].trace[1].fn = "create_recurrent_model"
  /\ \A i \in Entries("loss_builder") :
       /\ Len(history[i].trace) = 1
       /\ history[i].trace[1].fn = "SparseCategoricalCrossentropy"
       /\ history[i].trace[1].kwargs = [from_logits |-> TRUE]
  /\ \A i \in Entries("metrics_builder") :
       /\ CallsOf(i, "get_special_tokens") = {1}
       /\ CallsOf(i, "create_recurrent_model") = {}
       /\ CallsOf(i, "SparseCategoricalCrossentropy") = {}
  /\ \A i \in Entries("get_data_spec") :
       /\ history[i].trace # <<>>
       /\ history[i].trace[1].fn \in {"get_synthetic", "load_data"}
       /\ \A k \in DOMAIN history[i].trace :
            k > 1 => history[i].trace[k].fn = "create_preprocess_fn"

C9_Witness ==
  /\ Returned("get_model_spec") # {}
  /\ \E i \in Entries("metrics_builder") :
       /\ history[i].trace[1].fn = "get_special_tokens"
       /\ history[i].trace[1].raised

(* ------------------------------- C10 ---------------------------------- *)

\* C10: whatever calls followed, every ModelSpec the harness holds still
\* binds the seed of its own get_model_spec call and every DataSpec still
\* holds the handles loaded by, and closures built from the client specs of,
\* its own get_data_spec call, which made exactly one dataset load; no two
\* returned specs are the same object or share a closure object, and the
\* lists and metrics returned by two metrics closure invocations are
\* different objects.
C10_Fresh ==
  /\ \A i \in Returned("get_model_spec") :
       /\ Result(i).type = "ModelSpec"
       /\ ModelKeywords(i) = [vocab_size |-> Len(CHAR_VOCAB) + 4,
                              sequence_length |-> 80,
                              seed |-> GivenSeed(i)]
       /\ heap[Result(i).loss_builder].keywords = [from_logits |-> TRUE]
       /\ \A j \in Returned("get_model_spec") \ {i} :
            /\ history[i].outcome.value # history[j].outcome.value
            /\ Result(i).keras_model_builder # Result(j).keras_model_builder
            /\ Result(i).loss_builder # Result(j).loss_builder
  /\ \A i \in Returned("get_data_spec") :
       LET e == history[i]
       IN /\ Result(i).type = "DataSpec"
          /\ Cardinality(CallsOf(i, "get_synthetic") \cup CallsOf(i, "load_data")) = 1
          /\ Result(i).train_data =
               (IF Synthetic(i) THEN e.trace[1].value
                ELSE heap[e.trace[1].value].items[1])
          /\ Result(i).test_data =
               (IF Synthetic(i) THEN e.trace[1].value
                ELSE heap[e.trace[1].value].items[2])
          /\ Result(i).validation_data =
               (IF Synthetic(i) THEN e.trace[1].value ELSE None)
          /\ heap[Result(i).train_preprocess_fn].kwargs.num_epochs
               = e.args.train_client_spec.num_epochs
          /\ heap[Result(i).train_preprocess_fn].kwargs.batch_size
               = e.args.train_client_spec.batch_size
          /\ heap[Result(i).eval_preprocess_fn].kwargs.num_epochs
               = e.args.eval_client_spec.num_epochs
          /\ heap[Result(i).eval_preprocess_fn].kwargs.batch_size
               = e.args.eval_client_spec.batch_size
          /\ \A j \in Returned("get_data_spec") \ {i} :
               /\ e.outcome.value # history[j].outcome.value
               /\ Result(i).train_preprocess_fn # Result(j).train_preprocess_fn
               /\ Result(i).eval_preprocess_fn # Result(j).eval_preprocess_fn
  /\ \A i \in Returned("metrics_builder") :
       \A j \in Returned("metrics_builder") \ {i} :
         /\ history[i].outcome.value # history[j].outcome.value
         /\ \A m, n \in 1..4 : Result(i).items[m] # Result(j).items[n]

C10_Witness ==
  /\ Len(history) = 3
  /\ history[1].fn = "get_model_spec"
  /\ history[2].fn = "get_data_spec"
  /\ history[3].fn = "get_model_spec"
  /\ GivenSeed(1) # GivenSeed(3)

====
